---- MODULE Spec2Model ----
(***************************************************************************)
(* The write-coalescing configuration synchronizer of robot-cameraman's    *)
(* web interface: RequestQueue (api.js) on top of assignDeep               *)
(* (assign-deep.js, a modified mixin-deep).                                *)
(*                                                                         *)
(* JavaScript values are records [kind, val, fields]:                      *)
(*   kind   - "object" (a plain record), "array", "null", "undefined",     *)
(*            "number", "string" or "boolean";                             *)
(*   val    - the text of a scalar or of an array (arrays are never        *)
(*            looked into by the code, only passed on);                    *)
(*   fields - for an object, the function from its own enumerable keys to  *)
(*            their values; the empty function otherwise.                  *)
(***************************************************************************)
EXTENDS Integers, Sequences, FiniteSets, TLC

VARIABLES
    _payload,      \* RequestQueue._payload
    _isSending,    \* RequestQueue._isSending
    puts,          \* the putJson calls of the queue, in call order (history)
    pendingEdits,  \* the payloads add stored or merged into _payload since it was last null (history)
    addCalls,      \* number of add calls so far (history)
    threw,         \* whether some add call has thrown (history)
    response,      \* the response the last fulfilled fetch promise carried: "none" at first, then "ok" or "error" (history)
    mTarget,       \* assignDeep's target argument
    mRest,         \* assignDeep's rest arguments
    mResult,       \* the value assignDeep returned
    mPc,           \* "call" before assignDeep runs, "done" after ("idle" where only the queue runs)
    heap,          \* the objects that exist, by address: address -> (own key -> value or reference)
    queues,        \* the RequestQueue instances, by url: _url, _payload, _isSending and the putJson calls made
    held,          \* the addresses of the Edit objects the producers have created and still hold
    menu,          \* the ColorTrackingMenu element: its fields, its suspended connectedCallbacks, the pickers in its shadow root
    liveView       \* the puts to /api/live-view/source and the source the server holds

vars == <<_payload, _isSending, puts, pendingEdits, addCalls, threw, response,
          mTarget, mRest, mResult, mPc, heap, queues, held, menu, liveView>>

queueVars == <<_payload, _isSending, puts, pendingEdits, addCalls, threw, response>>
mergeVars == <<mTarget, mRest, mResult, mPc>>
refVars == <<heap, queues, held>>
menuVars == <<menu, liveView>>

----------------------------------------------------------------------------
(* Values *)

NoFields == [k \in {} |-> k]

Obj(f) == [kind |-> "object", val |-> "", fields |-> f]
Num(s) == [kind |-> "number", val |-> s, fields |-> NoFields]
Arr(s) == [kind |-> "array", val |-> s, fields |-> NoFields]
Null == [kind |-> "null", val |-> "null", fields |-> NoFields]
Undefined == [kind |-> "undefined", val |-> "undefined", fields |-> NoFields]
EmptyObj == Obj(NoFields)

\* a reference to the object at address a (what a variable or a key holds
\* where objects are told apart by identity)
Ref(a) == [kind |-> "ref", val |-> a, fields |-> NoFields]

\* no object yet
EmptyHeap == [a \in {} |-> NoFields]

\* no RequestQueue yet
NoQueues == [q \in {} |-> q]

\* new ColorTrackingMenu(): no listener field is set, the shadow root is
\* empty, the element is not in the document
NewMenu ==
    [ connected |-> FALSE,
      connects |-> 0,
      awaiting |-> 0,
      minimumColorListener |-> 0,
      maximumColorListener |-> 0,
      listeners |-> 0,
      pickers |-> <<>> ]

\* no put to /api/live-view/source yet; the server shows the live view
NoRequests == [requests |-> <<>>, source |-> "LIVE_VIEW"]

\* obj[key]: undefined when obj has no such key
Get(obj, key) ==
    IF key \in DOMAIN obj.fields THEN obj.fields[key] ELSE Undefined

\* obj after obj[key] = v
Put(obj, key, v) ==
    [obj EXCEPT !.fields =
        [k \in (DOMAIN obj.fields) \cup {key} |-> IF k = key THEN v ELSE obj.fields[k]]]

\* typeof v
TypeOf(v) ==
    IF v.kind \in {"object", "ref", "array", "null"} THEN "object" ELSE v.kind

\* ToBoolean(v), as in  if (v)
Truthy(v) ==
    CASE v.kind \in {"object", "ref", "array"} -> TRUE
      [] v.kind \in {"null", "undefined"} -> FALSE
      [] v.kind = "number" -> v.val \notin {"0", "NaN"}
      [] v.kind = "string" -> v.val # ""
      [] OTHER -> v.val = "true"

----------------------------------------------------------------------------
(* assign-deep.js *)

\* isObject without the Array.isArray test
isObjectNoArrayTest(val) == TypeOf(val) = "object" /\ val.kind # "null"

isObject(val) ==
    TypeOf(val) = "function"
    \/ (TypeOf(val) = "object" /\ val.kind # "null" /\ val.kind # "array")

\* isValidKey without the denylist
isValidKeyNoDenylist(key) == TRUE

isValidKey(key) ==
    key # "__proto__" /\ key # "constructor" /\ key # "prototype"

RECURSIVE assignDeep(_, _)
RECURSIVE assignKeys(_, _, _)
RECURSIVE assign(_, _, _)

\* assign without the recursion: target[key] = val in every case
assignShallow(target, val, key) == Put(target, key, val)

\* assign that keeps a key the target already has
assignFirstWins(target, val, key) ==
    IF key \in DOMAIN target.fields THEN target ELSE Put(target, key, val)

\* assign that stores null where the target already holds the very value
assignTogglesEqual(target, val, key) ==
    IF Get(target, key) = val THEN Put(target, key, Null) ELSE Put(target, key, val)

\* function assign(target, val, key): the target after the call
assign(target, val, key) ==
    LET obj == Get(target, key)
    IN  IF isObject(val) /\ isObject(obj)
        THEN Put(target, key, assignDeep(obj, <<val>>))
        ELSE IF isObject(val)
             THEN Put(target, key, assignDeep(EmptyObj, <<val>>))
             ELSE Put(target, key, val)

\* the loop of assignDeep left after its first key
assignKeysFirstOnly(target, obj, keys) ==
    IF keys = {}
    THEN target
    ELSE LET key == CHOOSE k \in keys : TRUE
         IN  IF isValidKey(key) THEN assign(target, obj.fields[key], key) ELSE target

\* the loop  for (let key in obj)  of assignDeep over the keys still to visit
assignKeys(target, obj, keys) ==
    IF keys = {}
    THEN target
    ELSE LET key == CHOOSE k \in keys : TRUE
         IN  assignKeys(IF isValidKey(key)
                        THEN assign(target, obj.fields[key], key)
                        ELSE target,
                        obj, keys \ {key})

\* assignDeep(target, ...rest): the target after the call, which is what it returns
assignDeep(target, rest) ==
    IF rest = <<>>
    THEN target
    ELSE LET obj == Head(rest)
         IN  assignDeep(IF isObject(obj)
                        THEN assignKeys(target, obj, DOMAIN obj.fields)
                        ELSE target,
                        Tail(rest))

----------------------------------------------------------------------------
(* Bounds and the documents the producers submit *)

\* add calls per behaviour
MaxAdds == 3

Edits ==
    { EmptyObj,
      Obj([h |-> Num("10")]),
      Obj([h |-> Num("20")]),
      Obj([s |-> Num("50")]),
      Obj([h |-> Obj([x |-> Num("1"), y |-> Num("2")])]),
      Obj([h |-> Obj([x |-> Num("9")])]),
      Obj([constructor |-> Num("1")]) }

----------------------------------------------------------------------------
(* api.js *)

RECURSIVE JSONstringify(_)
\* JSON.stringify(data), kept as the document the text denotes: own keys whose
\* value is undefined are left out, everything else is written as it is
JSONstringify(data) ==
    IF data.kind = "object"
    THEN Obj([k \in {j \in DOMAIN data.fields : data.fields[j].kind # "undefined"} |->
                 JSONstringify(data.fields[k])])
    ELSE data

\* the typeof check of _merge with the comparison turned round
mergeThrowsOnSameType(current, next) == TypeOf(current) = TypeOf(next)

\* _merge throws:  typeof current !== typeof next
mergeThrows(current, next) == TypeOf(current) # TypeOf(next)

\* _merge that returns current untouched
mergeKeepsCurrent(current, next) == current

\* _merge that returns next without merging
mergeReplaces(current, next) == next

\* _merge(current, next) when it does not throw
_merge(current, next) ==
    IF isObject(next) THEN assignDeep(current, <<next>>) ELSE next

\* the put calls whose promise is still pending
outstanding == {i \in DOMAIN puts : puts[i].status = "pending"}

\* putJson(url, data): one more fetch whose body is JSON.stringify(data), taken
\* when the call is made; ps is the call log so far
putJson(ps, data, by, edits) ==
    Append(ps, [payload |-> JSONstringify(data), status |-> "pending",
                by |-> by, edits |-> edits])

\* _send that makes the put and leaves the flag as it is
_sendWithoutFlag(ps, payload, by, edits) ==
    /\ _isSending' = _isSending
    /\ puts' = putJson(ps, payload, by, edits)

\* _send(payload) up to the .then: the flag is set and the put is made
_send(ps, payload, by, edits) ==
    /\ _isSending' = TRUE
    /\ puts' = putJson(ps, payload, by, edits)

\* add without the _isSending test
addAlwaysSends(payload) ==
    /\ addCalls < MaxAdds
    /\ addCalls' = addCalls + 1
    /\ _send(puts, payload, "add", <<payload>>)
    /\ UNCHANGED <<_payload, pendingEdits, threw, response>>

\* add that does not store the payload when _payload is empty
addDropsFirstPending(payload) ==
    /\ addCalls < MaxAdds
    /\ addCalls' = addCalls + 1
    /\ IF _isSending
       THEN /\ IF Truthy(_payload)
               THEN /\ _payload' = _merge(_payload, payload)
                    /\ pendingEdits' = Append(pendingEdits, payload)
               ELSE /\ UNCHANGED _payload
                    /\ pendingEdits' = <<payload>>
            /\ UNCHANGED <<_isSending, puts, threw, response>>
       ELSE /\ _send(puts, payload, "add", <<payload>>)
            /\ UNCHANGED <<_payload, pendingEdits, threw, response>>

\* add(payload)
add(payload) ==
    /\ addCalls < MaxAdds
    /\ addCalls' = addCalls + 1
    /\ IF _isSending
       THEN /\ IF Truthy(_payload)
               THEN IF mergeThrows(_payload, payload)
                    THEN /\ threw' = TRUE
                         /\ UNCHANGED <<_payload, pendingEdits>>
                    ELSE /\ _payload' = _merge(_payload, payload)
                         /\ pendingEdits' = Append(pendingEdits, payload)
                         /\ UNCHANGED threw
               ELSE /\ _payload' = payload
                    /\ pendingEdits' = <<payload>>
                    /\ UNCHANGED threw
            /\ UNCHANGED <<_isSending, puts, response>>
       ELSE /\ _send(puts, payload, "add", <<payload>>)
            /\ UNCHANGED <<_payload, pendingEdits, threw, response>>

\* the .then callback that puts the same payload again after an error response
thenRetries(i, ok) ==
    /\ i \in outstanding
    /\ LET ps == [puts EXCEPT ![i].status = "fulfilled"]
       IN  IF ~ok
           THEN /\ _send(ps, puts[i].payload, "then", puts[i].edits)
                /\ UNCHANGED <<_payload, pendingEdits>>
           ELSE IF Truthy(_payload)
                THEN /\ _payload' = Null
                     /\ pendingEdits' = <<>>
                     /\ _send(ps, _payload, "then", pendingEdits)
                ELSE /\ _isSending' = FALSE
                     /\ puts' = ps
                     /\ UNCHANGED <<_payload, pendingEdits>>
    /\ response' = (IF ok THEN "ok" ELSE "error")
    /\ UNCHANGED <<addCalls, threw>>

\* the .then callback that leaves the flag set when nothing is pending
thenKeepsFlag(i, ok) ==
    /\ i \in outstanding
    /\ LET ps == [puts EXCEPT ![i].status = "fulfilled"]
       IN  IF Truthy(_payload)
           THEN /\ _payload' = Null
                /\ pendingEdits' = <<>>
                /\ _send(ps, _payload, "then", pendingEdits)
           ELSE /\ _isSending' = _isSending
                /\ puts' = ps
                /\ UNCHANGED <<_payload, pendingEdits>>
    /\ response' = (IF ok THEN "ok" ELSE "error")
    /\ UNCHANGED <<addCalls, threw>>

\* the .then callback that puts an empty document instead of the pending payload
thenSendsEmpty(i, ok) ==
    /\ i \in outstanding
    /\ LET ps == [puts EXCEPT ![i].status = "fulfilled"]
       IN  IF Truthy(_payload)
           THEN /\ _payload' = Null
                /\ pendingEdits' = <<>>
                /\ _send(ps, EmptyObj, "then", pendingEdits)
           ELSE /\ _isSending' = FALSE
                /\ puts' = ps
                /\ UNCHANGED <<_payload, pendingEdits>>
    /\ response' = (IF ok THEN "ok" ELSE "error")
    /\ UNCHANGED <<addCalls, threw>>

\* the fetch promise of put i is fulfilled with a response (ok or an error
\* status) and the callback given to .then in _send runs
then(i, ok) ==
    /\ i \in outstanding
    /\ LET ps == [puts EXCEPT ![i].status = "fulfilled"]
       IN  IF Truthy(_payload)
           THEN /\ _payload' = Null
                /\ pendingEdits' = <<>>
                /\ _send(ps, _payload, "then", pendingEdits)
           ELSE /\ _isSending' = FALSE
                /\ puts' = ps
                /\ UNCHANGED <<_payload, pendingEdits>>
    /\ response' = (IF ok THEN "ok" ELSE "error")
    /\ UNCHANGED <<addCalls, threw>>

\* the fetch promise of put i is rejected (a network error): _send gave .then
\* no rejection callback, so nothing of the queue runs
rejected(i) ==
    /\ i \in outstanding
    /\ puts' = [puts EXCEPT ![i].status = "rejected"]
    /\ UNCHANGED <<_payload, _isSending, pendingEdits, addCalls, threw, response>>

----------------------------------------------------------------------------
(* The queue and its producers *)

\* new RequestQueue(url)
Init ==
    /\ _payload = Null
    /\ _isSending = FALSE
    /\ puts = <<>>
    /\ pendingEdits = <<>>
    /\ addCalls = 0
    /\ threw = FALSE
    /\ response = "none"
    /\ mTarget = EmptyObj
    /\ mRest = <<>>
    /\ mResult = Undefined
    /\ mPc = "idle"
    /\ heap = EmptyHeap
    /\ queues = NoQueues
    /\ held = {}
    /\ menu = NewMenu
    /\ liveView = NoRequests

Add == \E payload \in Edits : add(payload) /\ UNCHANGED <<mergeVars, refVars, menuVars>>

Fulfil == \E i \in DOMAIN puts, ok \in BOOLEAN : then(i, ok) /\ UNCHANGED <<mergeVars, refVars, menuVars>>

Reject == \E i \in DOMAIN puts : rejected(i) /\ UNCHANGED <<mergeVars, refVars, menuVars>>

Next == Add \/ Fulfil \/ Reject

Spec == Init /\ [][Next]_vars

\* what add may be called with when callers pass values of any type: two
\* mappings, a number and null
AnyPayloads ==
    { Obj([h |-> Num("10")]), Obj([s |-> Num("50")]), Num("5"), Null }

AddAny == \E payload \in AnyPayloads : add(payload) /\ UNCHANGED <<mergeVars, refVars, menuVars>>

AnyNext == AddAny \/ Fulfil \/ Reject

\* the queue with callers that pass values of any type
AnySpec == Init /\ [][AnyNext]_vars

----------------------------------------------------------------------------
(* assignDeep on its own: one call on arguments drawn from MergeDocs *)

\* the objects over some of the keys, with values from vals
DocsOver(keys, vals) ==
    {Obj(f) : f \in UNION {[K -> vals] : K \in SUBSET keys}}

InnerDocs ==
    DocsOver({"x", "y"}, {Num("1"), Num("9")})
    \cup {Obj([x |-> Num("1"), y |-> Num("2")])}

DeepDocs ==
    { Obj([x |-> Obj([p |-> Num("1")])]),
      Obj([x |-> Obj([q |-> Num("2")])]),
      Obj([x |-> Obj([p |-> Num("1"), q |-> Num("2")]), y |-> Num("2")]) }

MergeDocs ==
    DocsOver({"a"}, InnerDocs \cup DeepDocs \cup {Num("1"), Arr("[5]"), Null})
    \cup { Obj([b |-> Num("2")]),
           Obj([a |-> Num("1"), b |-> Num("2")]),
           Obj([range |-> Arr("[0,10]")]),
           Obj([range |-> Arr("[5]")]),
           Obj([safe |-> Num("1"), __proto__ |-> Obj([polluted |-> Num("1")])]),
           Obj([constructor |-> Obj([x |-> Num("1")])]),
           Obj([constructor |-> Num("1"), b |-> Null]),
           Obj([a |-> Obj([prototype |-> Num("1"), y |-> Num("9")])]) }

\* rest arguments that are not objects: a scalar, a sequence, null, undefined
NonMappings == { Num("1"), Arr("[5]"), Null, Undefined }

\* the documents a second edit is drawn from
LaterDocs ==
    InnerDocs \cup { Num("1"), Obj([a |-> Obj([y |-> Num("9")])]), Obj([a |-> Num("9")]) }

MergeInit ==
    /\ mTarget \in MergeDocs
    /\ mRest \in {<<>>} \cup {<<a>> : a \in MergeDocs \cup NonMappings}
                 \cup {<<a, b>> : a \in MergeDocs, b \in LaterDocs}
    /\ mResult = Undefined
    /\ mPc = "call"
    /\ _payload = Null
    /\ _isSending = FALSE
    /\ puts = <<>>
    /\ pendingEdits = <<>>
    /\ addCalls = 0
    /\ threw = FALSE
    /\ response = "none"
    /\ heap = EmptyHeap
    /\ queues = NoQueues
    /\ held = {}
    /\ menu = NewMenu
    /\ liveView = NoRequests

\* assignDeep(mTarget, ...mRest)
CallAssignDeep ==
    /\ mPc = "call"
    /\ mResult' = assignDeep(mTarget, mRest)
    /\ mPc' = "done"
    /\ UNCHANGED <<mTarget, mRest>>
    /\ UNCHANGED <<queueVars, refVars, menuVars>>

MergeNext == CallAssignDeep

MergeSpec == MergeInit /\ [][MergeNext]_vars

----------------------------------------------------------------------------
(* assign-deep.js on objects told apart by identity *)

\* the addresses new objects are created at
Addrs ==
    { "o01", "o02", "o03", "o04", "o05", "o06", "o07", "o08",
      "o09", "o10", "o11", "o12", "o13", "o14", "o15", "o16" }

\* the address the next object is created at
NewAddr(h) == CHOOSE a \in Addrs : a \notin DOMAIN h

\* h after  {}  : one more object, at NewAddr(h), without keys
Alloc(h) ==
    [a \in (DOMAIN h) \cup {NewAddr(h)} |-> IF a \in DOMAIN h THEN h[a] ELSE NoFields]

\* obj[key] of the object at address a: undefined when it has no such key
HeapGet(h, a, key) ==
    IF key \in DOMAIN h[a] THEN h[a][key] ELSE Undefined

\* h after  obj[key] = v  on the object at address a
HeapPut(h, a, key, v) ==
    [b \in DOMAIN h |->
        IF b = a
        THEN [k \in (DOMAIN h[a]) \cup {key} |-> IF k = key THEN v ELSE h[a][k]]
        ELSE h[b]]

RECURSIVE Value(_, _)
\* the document a value denotes in h: references followed, identity forgotten
Value(h, v) ==
    IF v.kind = "ref"
    THEN Obj([k \in DOMAIN h[v.val] |-> Value(h, h[v.val][k])])
    ELSE v

RECURSIVE Evaluate(_, _)
RECURSIVE EvaluateKeys(_, _, _, _)

\* h after the keys of an object literal are stored in the new object at a
EvaluateKeys(h, a, doc, keys) ==
    IF keys = {}
    THEN h
    ELSE LET key == CHOOSE k \in keys : TRUE
             v == doc.fields[key]
         IN  EvaluateKeys(IF v.kind = "object"
                          THEN HeapPut(Evaluate(h, v), a, key, Ref(NewAddr(h)))
                          ELSE HeapPut(h, a, key, v),
                          a, doc, keys \ {key})

\* h after an expression denoting doc is evaluated: an object literal makes
\* a new object at NewAddr(h), and one more for every object inside it
Evaluate(h, doc) ==
    IF doc.kind = "object"
    THEN EvaluateKeys(Alloc(h), NewAddr(h), doc, DOMAIN doc.fields)
    ELSE h

\* the value of that expression
Evaluated(h, doc) ==
    IF doc.kind = "object" THEN Ref(NewAddr(h)) ELSE doc

RECURSIVE EvaluateAll(_, _)
\* h after the expressions of docs are evaluated in order
EvaluateAll(h, docs) ==
    IF docs = <<>> THEN h ELSE EvaluateAll(Evaluate(h, Head(docs)), Tail(docs))

RECURSIVE EvaluatedAll(_, _)
\* the values of those expressions
EvaluatedAll(h, docs) ==
    IF docs = <<>>
    THEN <<>>
    ELSE <<Evaluated(h, Head(docs))>> \o EvaluatedAll(Evaluate(h, Head(docs)), Tail(docs))

RECURSIVE assignDeepIn(_, _, _)
RECURSIVE assignKeysIn(_, _, _, _)

\* assign that merges into the object under the key without touching it
assignInLeavesNested(h, target, val, key) ==
    LET obj == HeapGet(h, target, key)
    IN  IF isObject(val) /\ isObject(obj)
        THEN h
        ELSE IF isObject(val)
             THEN HeapPut(assignDeepIn(Alloc(h), NewAddr(h), <<val>>), target, key, Ref(NewAddr(h)))
             ELSE HeapPut(h, target, key, val)

\* assign that stores the edit's own object where the target has none
assignInShares(h, target, val, key) ==
    LET obj == HeapGet(h, target, key)
    IN  IF isObject(val) /\ isObject(obj)
        THEN assignDeepIn(h, obj.val, <<val>>)
        ELSE HeapPut(h, target, key, val)

\* function assign(target, val, key), target being the address of the
\* object: the heap after the call
assignIn(h, target, val, key) ==
    LET obj == HeapGet(h, target, key)
    IN  IF isObject(val) /\ isObject(obj)
        THEN assignDeepIn(h, obj.val, <<val>>)
        ELSE IF isObject(val)
             THEN HeapPut(assignDeepIn(Alloc(h), NewAddr(h), <<val>>), target, key, Ref(NewAddr(h)))
             ELSE HeapPut(h, target, key, val)

\* the loop  for (let key in obj)  of assignDeep over the keys still to
\* visit, obj being the address of the object looped over
assignKeysIn(h, target, obj, keys) ==
    IF keys = {}
    THEN h
    ELSE LET key == CHOOSE k \in keys : TRUE
         IN  assignKeysIn(IF isValidKey(key)
                          THEN assignIn(h, target, HeapGet(h, obj, key), key)
                          ELSE h,
                          target, obj, keys \ {key})

RECURSIVE assignDeepInReversed(_, _, _)
\* assignDeep that goes through rest from its last argument to its first
assignDeepInReversed(h, target, rest) ==
    IF rest = <<>>
    THEN h
    ELSE LET obj == rest[Len(rest)]
         IN  assignDeepInReversed(IF isObject(obj)
                                  THEN assignKeysIn(h, target, obj.val, DOMAIN h[obj.val])
                                  ELSE h,
                                  target, SubSeq(rest, 1, Len(rest) - 1))

\* assignDeep(target, ...rest), target being the address of the object: the
\* heap after the call; what the call returns is target itself
assignDeepIn(h, target, rest) ==
    IF rest = <<>>
    THEN h
    ELSE LET obj == Head(rest)
         IN  assignDeepIn(IF isObject(obj)
                          THEN assignKeysIn(h, target, obj.val, DOMAIN h[obj.val])
                          ELSE h,
                          target, Tail(rest))

\* a call of assignDeep on objects made for it: the target and each of the
\* rest arguments is an object of its own
RefInit ==
    /\ \E t \in MergeDocs :
       \E r \in {<<>>} \cup {<<a>> : a \in MergeDocs \cup NonMappings}
                \cup {<<a, b>> : a \in MergeDocs, b \in LaterDocs} :
          /\ heap = EvaluateAll(EmptyHeap, <<t>> \o r)
          /\ mTarget = Evaluated(EmptyHeap, t)
          /\ mRest = EvaluatedAll(Evaluate(EmptyHeap, t), r)
    /\ mResult = Undefined
    /\ mPc = "call"
    /\ _payload = Null
    /\ _isSending = FALSE
    /\ puts = <<>>
    /\ pendingEdits = <<>>
    /\ addCalls = 0
    /\ threw = FALSE
    /\ response = "none"
    /\ queues = NoQueues
    /\ held = {}
    /\ menu = NewMenu
    /\ liveView = NoRequests

\* assignDeep that merges the target and the rest into a new object and returns that
CallAssignDeepInCopy ==
    /\ mPc = "call"
    /\ heap' = assignDeepIn(Alloc(heap), NewAddr(heap), <<mTarget>> \o mRest)
    /\ mResult' = Ref(NewAddr(heap))
    /\ mPc' = "done"
    /\ UNCHANGED <<mTarget, mRest, queues, held>>
    /\ UNCHANGED <<queueVars, menuVars>>

\* assignDeep(mTarget, ...mRest)
CallAssignDeepIn ==
    /\ mPc = "call"
    /\ heap' = assignDeepIn(heap, mTarget.val, mRest)
    /\ mResult' = mTarget
    /\ mPc' = "done"
    /\ UNCHANGED <<mTarget, mRest, queues, held>>
    /\ UNCHANGED <<queueVars, menuVars>>

RefNext == CallAssignDeepIn

RefSpec == RefInit /\ [][RefNext]_vars

----------------------------------------------------------------------------
(* api.js with several RequestQueue instances, their payloads told apart by
   identity *)

\* add calls per behaviour, over all instances
MaxInstanceAdds == 5

\* the instances, named by their url
Urls == {"api/configuration", "api/other"}

\* the documents the producers' object literals denote
InstanceEdits == { Obj([h |-> Num("10")]), Obj([s |-> Num("50")]) }

\* f with f[x] = v
Update(f, x, v) == [y \in DOMAIN f |-> IF y = x THEN v ELSE f[y]]

\* new RequestQueue(url)
RequestQueue(url) ==
    [_url |-> url, _payload |-> Null, _isSending |-> FALSE, puts |-> <<>>]

\* this._send(payload) up to the .then, in heap h: the instance after it
_sendOn(this, h, payload) ==
    [this EXCEPT
        !._isSending = TRUE,
        !.puts = Append(@, [url |-> this._url,
                            payload |-> JSONstringify(Value(h, payload)),
                            status |-> "pending"])]

\* the heap after this._merge(current, next) when it does not throw
_mergeIn(h, current, next) ==
    IF isObject(next) THEN assignDeepIn(h, current.val, <<next>>) ELSE h

\* what this._merge(current, next) returns:  return assignDeep(current, next)
\* gives current itself
_mergeReturns(current, next) ==
    IF isObject(next) THEN current ELSE next

\* add that merges the payload into the body of the put that is outstanding
addOnIntoOutstanding(q, h, payload) ==
    LET this == queues[q]
    IN  /\ heap' = h
        /\ IF this._isSending
           THEN queues' = Update(queues, q,
                    [this EXCEPT !.puts[Len(this.puts)].payload =
                                     assignDeep(@, <<Value(h, payload)>>)])
           ELSE queues' = Update(queues, q, _sendOn(this, h, payload))

\* queues[q].add(payload), called in heap h
addOn(q, h, payload) ==
    LET this == queues[q]
    IN  IF this._isSending
        THEN IF Truthy(this._payload)
             THEN IF mergeThrows(this._payload, payload)
                  THEN /\ queues' = queues
                       /\ heap' = h
                  ELSE /\ heap' = _mergeIn(h, this._payload, payload)
                       /\ queues' = Update(queues, q,
                                       [this EXCEPT !._payload = _mergeReturns(this._payload, payload)])
             ELSE /\ queues' = Update(queues, q, [this EXCEPT !._payload = payload])
                  /\ heap' = h
        ELSE /\ queues' = Update(queues, q, _sendOn(this, h, payload))
             /\ heap' = h

\* the promise of put i of instance q is fulfilled and the callback given to
\* .then in _send runs
thenOn(q, i) ==
    /\ queues[q].puts[i].status = "pending"
    /\ LET this == [queues[q] EXCEPT !.puts[i].status = "fulfilled"]
       IN  IF Truthy(this._payload)
           THEN queues' = Update(queues, q,
                             _sendOn([this EXCEPT !._payload = Null], heap, this._payload))
           ELSE queues' = Update(queues, q, [this EXCEPT !._isSending = FALSE])
    /\ UNCHANGED heap

\* the promise of put i of instance q is rejected: no callback runs
rejectedOn(q, i) ==
    /\ queues[q].puts[i].status = "pending"
    /\ queues' = Update(queues, q, [queues[q] EXCEPT !.puts[i].status = "rejected"])
    /\ UNCHANGED heap

\* one RequestQueue per url, no Edit object yet
InstancesInit ==
    /\ heap = EmptyHeap
    /\ queues = [url \in Urls |-> RequestQueue(url)]
    /\ held = {}
    /\ menu = NewMenu
    /\ liveView = NoRequests
    /\ _payload = Null
    /\ _isSending = FALSE
    /\ puts = <<>>
    /\ pendingEdits = <<>>
    /\ addCalls = 0
    /\ threw = FALSE
    /\ response = "none"
    /\ mTarget = EmptyObj
    /\ mRest = <<>>
    /\ mResult = Undefined
    /\ mPc = "idle"

\* a producer calls  queue.add({...})  with a new object
ProducerAdd ==
    /\ addCalls < MaxInstanceAdds
    /\ \E q \in Urls, e \in InstanceEdits :
          /\ addOn(q, Evaluate(heap, e), Evaluated(heap, e))
          /\ held' = held \cup {NewAddr(heap)}
    /\ addCalls' = addCalls + 1
    /\ UNCHANGED <<_payload, _isSending, puts, pendingEdits, threw, response, mergeVars, menuVars>>

\* a producer calls  queue.add(edit)  with an object it already holds
ProducerAddAgain ==
    /\ addCalls < MaxInstanceAdds
    /\ \E q \in Urls, a \in held : addOn(q, heap, Ref(a))
    /\ addCalls' = addCalls + 1
    /\ UNCHANGED <<held, _payload, _isSending, puts, pendingEdits, threw, response, mergeVars, menuVars>>

InstanceFulfil ==
    /\ \E q \in Urls : \E i \in DOMAIN queues[q].puts : thenOn(q, i)
    /\ UNCHANGED <<held, queueVars, mergeVars, menuVars>>

InstanceReject ==
    /\ \E q \in Urls : \E i \in DOMAIN queues[q].puts : rejectedOn(q, i)
    /\ UNCHANGED <<held, queueVars, mergeVars, menuVars>>

InstancesNext == ProducerAdd \/ ProducerAddAgain \/ InstanceFulfil \/ InstanceReject

InstancesSpec == InstancesInit /\ [][InstancesNext]_vars

\* the instances where every add is given an object of its own
FreshInstancesSpec ==
    InstancesInit /\ [][ProducerAdd \/ InstanceFulfil \/ InstanceReject]_vars

----------------------------------------------------------------------------
(* color-tracking-menu.js *)

\* times the menu is put into the document per behaviour
MaxConnects == 2

\* the colors a picker may show when its input event fires
PickerColors == { [h |-> 0, s |-> 0, v |-> 0], [h |-> 359, s |-> 100, v |-> 100] }

\* Math.round(x / scale * 255) for an integer x of 0..scale
RoundTo255(x, scale) == (2 * 255 * x + scale) \div (2 * scale)

\* toApiColor({h, s, v})
toApiColor(c) == <<RoundTo255(c.h, 360), RoundTo255(c.s, 100), RoundTo255(c.v, 100)>>

\* the payload a listener made by _setColorAndListener adds
ListenerEdit(configurationKey, c) ==
    Obj([tracking |->
           Obj([color |->
                  Obj([k \in {configurationKey} |-> Arr(ToString(toApiColor(c)))])])])

\* the configurationKey of the listener made for the picker with this id
KeyOf(id) == IF id = "minimumColor" THEN "min_hsv" ELSE "max_hsv"

\* putJson('/api/live-view/source', body): one more request on its way
putLiveView(lv, body) ==
    [lv EXCEPT !.requests = Append(@, [body |-> body, status |-> "sent"])]

\* this.shadowRoot.getElementById(id): the first such picker of the shadow
\* root, 0 for null
getElementById(pickers, id) ==
    IF \E p \in DOMAIN pickers : pickers[p].id = id
    THEN CHOOSE p \in DOMAIN pickers :
            /\ pickers[p].id = id
            /\ \A o \in DOMAIN pickers : pickers[o].id = id => p <= o
    ELSE 0

\* element?.removeEventListener('input', listener): nothing happens for
\* null, nor where the listener is not registered on the element
removeEventListener(pickers, element, listener) ==
    IF element # 0 /\ pickers[element].listener = listener
    THEN [pickers EXCEPT ![element].listener = 0]
    ELSE pickers

\* connectedCallback() up to its await: the put is made, getJson is awaited
connectedCallback ==
    /\ ~menu.connected
    /\ menu.connects < MaxConnects
    /\ liveView' = putLiveView(liveView, "COLOR_MASK")
    /\ menu' = [menu EXCEPT !.connected = TRUE, !.connects = @ + 1, !.awaiting = @ + 1]
    /\ UNCHANGED <<queueVars, mergeVars, refVars>>

\* connectedCallback() after its await: getJson has resolved, the pickers
\* are cloned, a listener is made and registered for each, the fields are set
\* and the pickers are appended to the shadow root
connectedCallbackResumed ==
    /\ menu.awaiting > 0
    /\ LET minimum == menu.listeners + 1
           maximum == menu.listeners + 2
       IN  menu' = [menu EXCEPT
                       !.awaiting = @ - 1,
                       !.listeners = @ + 2,
                       !.minimumColorListener = minimum,
                       !.maximumColorListener = maximum,
                       !.pickers = @ \o <<[id |-> "minimumColor", listener |-> minimum],
                                          [id |-> "maximumColor", listener |-> maximum]>>]
    /\ UNCHANGED <<liveView, queueVars, mergeVars, refVars>>

\* the promise of getJson is rejected: the rest of connectedCallback never runs
connectedCallbackFailed ==
    /\ menu.awaiting > 0
    /\ menu' = [menu EXCEPT !.awaiting = @ - 1]
    /\ UNCHANGED <<liveView, queueVars, mergeVars, refVars>>

\* disconnectedCallback()
disconnectedCallback ==
    /\ menu.connected
    /\ liveView' = putLiveView(liveView, "LIVE_VIEW")
    /\ LET afterMinimum ==
               IF menu.minimumColorListener # 0
               THEN removeEventListener(menu.pickers,
                                        getElementById(menu.pickers, "minimumColor"),
                                        menu.minimumColorListener)
               ELSE menu.pickers
           afterMaximum ==
               IF menu.maximumColorListener # 0
               THEN removeEventListener(afterMinimum,
                                        getElementById(afterMinimum, "minimumColor"),
                                        menu.maximumColorListener)
               ELSE afterMinimum
       IN  menu' = [menu EXCEPT
                       !.connected = FALSE,
                       !.minimumColorListener = 0,
                       !.maximumColorListener = 0,
                       !.pickers = afterMaximum]
    /\ UNCHANGED <<queueVars, mergeVars, refVars>>

\* the input event of a picker that is shown: its listener adds an Edit
Input ==
    /\ menu.connected
    /\ \E p \in DOMAIN menu.pickers, c \in PickerColors :
          /\ menu.pickers[p].listener # 0
          /\ add(ListenerEdit(KeyOf(menu.pickers[p].id), c))
    /\ UNCHANGED <<mergeVars, refVars, menuVars>>

\* a put to /api/live-view/source reaches the server, which takes its body
\* as the source; the puts on their way arrive in any order
LiveViewArrives ==
    /\ \E i \in DOMAIN liveView.requests :
          /\ liveView.requests[i].status = "sent"
          /\ liveView' = [liveView EXCEPT !.requests[i].status = "arrived",
                                          !.source = liveView.requests[i].body]
    /\ UNCHANGED <<menu, queueVars, mergeVars, refVars>>

\* the response of a put that arrived reaches the page: the put has completed
LiveViewCompletes ==
    /\ \E i \in DOMAIN liveView.requests :
          /\ liveView.requests[i].status = "arrived"
          /\ liveView' = [liveView EXCEPT !.requests[i].status = "completed"]
    /\ UNCHANGED <<menu, queueVars, mergeVars, refVars>>

\* a put never reaches the server
LiveViewFails ==
    /\ \E i \in DOMAIN liveView.requests :
          /\ liveView.requests[i].status = "sent"
          /\ liveView' = [liveView EXCEPT !.requests[i].status = "failed"]
    /\ UNCHANGED <<menu, queueVars, mergeVars, refVars>>

\* the menu, its pickers and the configuration queue
MenuNext ==
    \/ connectedCallback
    \/ connectedCallbackResumed
    \/ connectedCallbackFailed
    \/ disconnectedCallback
    \/ Input
    \/ Fulfil
    \/ Reject

MenuSpec == Init /\ [][MenuNext]_vars

\* the menu and its puts to /api/live-view/source
LiveViewNext ==
    \/ connectedCallback
    \/ connectedCallbackResumed
    \/ connectedCallbackFailed
    \/ disconnectedCallback
    \/ LiveViewArrives
    \/ LiveViewCompletes
    \/ LiveViewFails

LiveViewSpec == Init /\ [][LiveViewNext]_vars

\* a put reaches the server only after every put made before it
LiveViewArrivesInOrder ==
    /\ \E i \in DOMAIN liveView.requests :
          /\ liveView.requests[i].status = "sent"
          /\ \A o \in 1..(i - 1) : liveView.requests[o].status # "sent"
          /\ liveView' = [liveView EXCEPT !.requests[i].status = "arrived",
                                          !.source = liveView.requests[i].body]
    /\ UNCHANGED <<menu, queueVars, mergeVars, refVars>>

\* the menu with puts that cannot overtake each other
SerializedLiveViewSpec ==
    Init /\ [][\/ connectedCallback
               \/ connectedCallbackResumed
               \/ connectedCallbackFailed
               \/ disconnectedCallback
               \/ LiveViewArrivesInOrder
               \/ LiveViewCompletes
               \/ LiveViewFails]_vars

----------------------------------------------------------------------------
(* Properties *)

\* C1 (single-flight): whatever the interleaving of add calls and of the
\* completions of the writes, at most one put of the queue is outstanding.
SingleFlight == Cardinality(outstanding) <= 1

\* C1's case: a second write is outstanding after the first one completed,
\* and a further add has arrived while it is.
SingleFlightWitness ==
    /\ Len(puts) >= 2
    /\ Cardinality(outstanding) = 1
    /\ pendingEdits # <<>>

RECURSIVE Survives(_, _, _)
\* every key of base that edit does not mention has base's value in result,
\* and so on inside the keys where base and edit both hold an object
Survives(base, edit, result) ==
    /\ result.kind = "object"
    /\ \A k \in DOMAIN base.fields :
          /\ k \in DOMAIN result.fields
          /\ k \notin DOMAIN edit.fields => result.fields[k] = base.fields[k]
          /\ (k \in DOMAIN edit.fields /\ isObject(base.fields[k]) /\ isObject(edit.fields[k]))
                => Survives(base.fields[k], edit.fields[k], result.fields[k])

\* C10 (merge overwrite law): where base[k] and the edit's value at k are
\* both mapping-shaped they are merged recursively, so at every depth a key
\* of base that the edit does not mention keeps its value; and
\* merge(merge({}, {a:{x:1,y:2}}), {a:{x:9}}) is {a:{x:9,y:2}}.
MergeOverwriteLaw ==
    (mPc = "done" /\ Len(mRest) = 1 /\ isObject(mRest[1])) =>
        /\ Survives(mTarget, mRest[1], mResult)
        /\ (/\ mTarget = assignDeep(EmptyObj, <<Obj([a |-> Obj([x |-> Num("1"), y |-> Num("2")])])>>)
            /\ mRest[1] = Obj([a |-> Obj([x |-> Num("9")])]))
              => mResult = Obj([a |-> Obj([x |-> Num("9"), y |-> Num("2")])])

\* C10's case: the call of the example has returned.
MergeOverwriteLawWitness ==
    /\ mPc = "done"
    /\ mTarget = Obj([a |-> Obj([x |-> Num("1"), y |-> Num("2")])])
    /\ mRest = <<Obj([a |-> Obj([x |-> Num("9")])])>>
    /\ mResult.fields["a"].fields["y"] = Num("2")

RECURSIVE Mergeable(_)
\* what StructuralMerge takes from an edit: the edit without its denylisted
\* keys, at every depth
Mergeable(e) ==
    IF e.kind = "object"
    THEN Obj([k \in {j \in DOMAIN e.fields : j \notin {"__proto__", "constructor", "prototype"}} |->
                 Mergeable(e.fields[k])])
    ELSE e

RECURSIVE Within(_, _)
\* every entry of e is an entry of doc
Within(e, doc) ==
    IF e.kind = "object"
    THEN /\ doc.kind = "object"
         /\ \A k \in DOMAIN e.fields :
               k \in DOMAIN doc.fields /\ Within(e.fields[k], doc.fields[k])
    ELSE e = doc

\* the last put call
LastPut(ps) == ps[Len(ps)]

\* C2 (no lost edits), as claimed: every add call either issues a put whose
\* payload is its Edit, or leaves the Edit merged into, and so contained in,
\* PendingPayload; and the next put the queue issues carries that
\* PendingPayload.
NoLostEdits ==
    [][ /\ \A e \in Edits : add(e) =>
              \/ /\ Len(puts') = Len(puts) + 1
                 /\ LastPut(puts').payload = e
                 /\ LastPut(puts').status = "pending"
              \/ /\ puts' = puts
                 /\ Within(e, _payload')
        /\ Len(puts') > Len(puts) =>
              \/ \E e \in Edits : add(e)
              \/ /\ LastPut(puts').payload = _payload
                 /\ _payload # Null ]_vars

\* C2 as amended: the same, where PendingPayload contains what
\* StructuralMerge takes from the Edit, which is the Edit without its
\* denylisted keys.
NoLostEditsOffDenylist ==
    [][ /\ \A e \in Edits : add(e) =>
              \/ /\ Len(puts') = Len(puts) + 1
                 /\ LastPut(puts').payload = e
                 /\ LastPut(puts').status = "pending"
              \/ /\ puts' = puts
                 /\ Within(Mergeable(e), _payload')
        /\ Len(puts') > Len(puts) =>
              \/ \E e \in Edits : add(e)
              \/ /\ LastPut(puts').payload = _payload
                 /\ _payload # Null ]_vars

\* C2's case: a put carrying two merged Edits has been issued on completion
\* of the write before it.
NoLostEditsWitness ==
    /\ Len(puts) >= 2
    /\ puts[2].by = "then"
    /\ Len(puts[2].edits) = 2
    /\ \A j \in {1, 2} : Within(Mergeable(puts[2].edits[j]), puts[2].payload)
    /\ puts[2].edits[1] # puts[2].edits[2]

RECURSIVE LeftMerge(_, _)
\* merge(...merge(merge(base, e1), e2)..., en) for es = <<e1, ..., en>>
LeftMerge(base, es) ==
    IF es = <<>>
    THEN base
    ELSE LeftMerge(assignDeep(base, <<Head(es)>>), Tail(es))

\* C3 (coalesced payload value): when e1 is added to an idle queue and
\* e2..en are added before e1's write completes, the payload of the second
\* put is merge(...merge(merge({}, e2), e3)..., en).
CoalescedPayloadValue ==
    (Len(puts) >= 2 /\ puts[2].by = "then") =>
        puts[2].payload = LeftMerge(EmptyObj, puts[2].edits)

\* C3 on the Edits without a denylisted key.
CoalescedPayloadValueOfMergeable ==
    (/\ Len(puts) >= 2
     /\ puts[2].by = "then"
     /\ \A j \in DOMAIN puts[2].edits : Mergeable(puts[2].edits[j]) = puts[2].edits[j]) =>
        puts[2].payload = LeftMerge(EmptyObj, puts[2].edits)

FailureTreatedAsCompletion ==
    [][ \A i \in DOMAIN puts :
          (then(i, FALSE) \/ rejected(i)) =>
              IF Truthy(_payload)
              THEN /\ Len(puts') = Len(puts) + 1
                   /\ LastPut(puts').payload = _payload
                   /\ _payload' = Null
                   /\ _isSending'
              ELSE /\ ~_isSending'
                   /\ Len(puts') = Len(puts) ]_vars

\* C5 for the failures that arrive as a response: the promise is fulfilled
\* with an error status.
ErrorResponseTreatedAsCompletion ==
    [][ \A i \in DOMAIN puts :
          then(i, FALSE) =>
              IF Truthy(_payload)
              THEN /\ Len(puts') = Len(puts) + 1
                   /\ LastPut(puts').payload = _payload
                   /\ _payload' = Null
                   /\ _isSending'
              ELSE /\ ~_isSending'
                   /\ Len(puts') = Len(puts) ]_vars

\* every put eventually completes: its promise is fulfilled or rejected
FairSpec == Spec /\ WF_vars(Fulfil \/ Reject)

\* every put is eventually fulfilled, and none is rejected
FulfilledSpec == Init /\ [][Add \/ Fulfil]_vars /\ WF_vars(Fulfil)

\* C6 (eventual delivery): if every issued put eventually completes, every
\* accepted Edit is eventually in the payload of an issued put, and once the
\* add calls stop (there are at most MaxAdds of them) the queue returns to
\* Idle with an empty PendingPayload.
EventualDelivery ==
    <>[](~_isSending /\ _payload = Null /\ pendingEdits = <<>> /\ outstanding = {})

\* C7 (add never throws): no add call of a mapping-shaped Edit throws, in
\* Idle, Sending or SendingWithPending, whatever PendingPayload holds.
AddNeverThrows == ~threw

\* C7's case: add calls have run in Idle, in Sending and in
\* SendingWithPending, the last one merging into a PendingPayload.
AddNeverThrowsWitness ==
    /\ ~threw
    /\ addCalls = 3
    /\ Len(puts) = 1
    /\ Len(pendingEdits) = 2
    /\ _payload # pendingEdits[1]

RECURSIVE MergeInOrder(_, _)
\* the edits es merged one after the other, in their order, into current
MergeInOrder(current, es) ==
    IF es = <<>>
    THEN current
    ELSE LET next == Head(es)
         IN  MergeInOrder(IF next.kind = "object" THEN assignDeep(current, <<next>>) ELSE next,
                          Tail(es))

\* C8 (generation ordering): the Edits added while generation N's write is
\* outstanding are merged, in call order, into the payload of generation
\* N+1, and the put of generation N+1 is not issued before the write of
\* generation N has completed.
GenerationOrdering ==
    /\ \A n \in DOMAIN puts :
          n + 1 \in DOMAIN puts => puts[n].status # "pending"
    /\ \A n \in DOMAIN puts :
          puts[n].by = "then" =>
              /\ puts[n].edits # <<>>
              /\ puts[n].payload = MergeInOrder(Head(puts[n].edits), Tail(puts[n].edits))
    /\ (outstanding # {} /\ pendingEdits # <<>>) =>
          _payload = MergeInOrder(Head(pendingEdits), Tail(pendingEdits))

\* C8's case: generation 3 was put after generation 2 completed, and
\* generation 2 carries two Edits that set the same key.
GenerationOrderingWitness ==
    /\ Len(puts) = 2
    /\ puts[1].status = "fulfilled"
    /\ puts[2].by = "then"
    /\ puts[2].edits = <<Obj([h |-> Num("20")]), Obj([h |-> Num("10")])>>
    /\ puts[2].payload = Obj([h |-> Num("10")])

RECURSIVE LeafPaths(_)
\* the key paths of doc that end in a value that is not mapping-shaped
LeafPaths(doc) ==
    IF doc.kind = "object"
    THEN UNION { IF doc.fields[k].kind = "object"
                 THEN {<<k>> \o p : p \in LeafPaths(doc.fields[k])}
                 ELSE {<<k>>} : k \in DOMAIN doc.fields }
    ELSE {}

RECURSIVE At(_, _)
\* the value of doc at a key path, undefined where doc has no such path
At(doc, path) ==
    IF path = <<>>
    THEN doc
    ELSE IF doc.kind = "object" /\ Head(path) \in DOMAIN doc.fields
         THEN At(doc.fields[Head(path)], Tail(path))
         ELSE Undefined

\* edit sets the leaf path p or a part of it: it holds a value that is not
\* mapping-shaped at a prefix of p, or any value at p itself
SetsPath(edit, p) ==
    \E n \in 1..Len(p) :
        LET v == At(edit, SubSeq(p, 1, n))
        IN  v # Undefined /\ (v.kind # "object" \/ n = Len(p))

ValidPath(p) == \A n \in 1..Len(p) : p[n] \notin {"__proto__", "constructor", "prototype"}

\* the generations of exactly two Edits that have been put
PairGenerations == {n \in DOMAIN puts : puts[n].by = "then" /\ Len(puts[n].edits) = 2}

\* C9 (last-merged-wins), as claimed: of two Edits merged into the same
\* generation, the payload holds the later one's value at every leaf key the
\* later one sets, and the earlier one's value at the leaf keys only the
\* earlier one sets.
LastMergedWins ==
    \A n \in PairGenerations :
        LET e1 == puts[n].edits[1]
            e2 == puts[n].edits[2]
        IN  /\ \A p \in LeafPaths(e2) : At(puts[n].payload, p) = At(e2, p)
            /\ \A p \in LeafPaths(e1) :
                  ~SetsPath(e2, p) => At(puts[n].payload, p) = At(e1, p)

\* C9 as amended: the same, for the leaf keys of the later Edit that have no
\* denylisted key on their path (the later Edit's denylisted keys are
\* dropped by assignDeep).
LastMergedWinsOffDenylist ==
    \A n \in PairGenerations :
        LET e1 == puts[n].edits[1]
            e2 == puts[n].edits[2]
        IN  /\ \A p \in LeafPaths(e2) :
                  ValidPath(p) => At(puts[n].payload, p) = At(e2, p)
            /\ \A p \in LeafPaths(e1) :
                  ~SetsPath(e2, p) => At(puts[n].payload, p) = At(e1, p)

\* C9's case: both Edits of a generation set h.x, and only the earlier one
\* sets h.y.
LastMergedWinsWitness ==
    \E n \in PairGenerations :
        /\ puts[n].edits = <<Obj([h |-> Obj([x |-> Num("1"), y |-> Num("2")])]),
                             Obj([h |-> Obj([x |-> Num("9")])])>>
        /\ puts[n].payload = Obj([h |-> Obj([x |-> Num("9"), y |-> Num("2")])])

\* C11 (replacement law), as claimed: where the edit's value at key k is a
\* scalar, null or a sequence, the result's value at k is exactly that value,
\* whatever base[k] was; merge(merge({}, {range:[0,10]}), {range:[5]}) is
\* {range:[5]}.
ReplacementLaw ==
    (mPc = "done" /\ Len(mRest) = 1 /\ isObject(mRest[1])) =>
        /\ \A k \in DOMAIN mRest[1].fields :
              mRest[1].fields[k].kind # "object" =>
                  /\ k \in DOMAIN mResult.fields
                  /\ mResult.fields[k] = mRest[1].fields[k]
        /\ (/\ mTarget = assignDeep(EmptyObj, <<Obj([range |-> Arr("[0,10]")])>>)
            /\ mRest[1] = Obj([range |-> Arr("[5]")]))
              => mResult = Obj([range |-> Arr("[5]")])

\* C11 as amended: the same for the keys k that are not denylisted.
ReplacementLawOffDenylist ==
    (mPc = "done" /\ Len(mRest) = 1 /\ isObject(mRest[1])) =>
        /\ \A k \in DOMAIN mRest[1].fields :
              (mRest[1].fields[k].kind # "object"
               /\ k \notin {"__proto__", "constructor", "prototype"}) =>
                  /\ k \in DOMAIN mResult.fields
                  /\ mResult.fields[k] = mRest[1].fields[k]
        /\ (/\ mTarget = assignDeep(EmptyObj, <<Obj([range |-> Arr("[0,10]")])>>)
            /\ mRest[1] = Obj([range |-> Arr("[5]")]))
              => mResult = Obj([range |-> Arr("[5]")])

\* C11's cases: a sequence has replaced a sequence, and null has replaced a
\* mapping.
ReplacementLawWitness ==
    /\ mPc = "done"
    /\ \/ /\ mTarget = Obj([range |-> Arr("[0,10]")])
          /\ mRest = <<Obj([range |-> Arr("[5]")])>>
          /\ mResult = Obj([range |-> Arr("[5]")])
       \/ /\ mTarget = Obj([a |-> Obj([x |-> Num("1"), y |-> Num("2")])])
          /\ mRest = <<Obj([a |-> Null])>>
          /\ mResult = Obj([a |-> Null])

RECURSIVE KeyPaths(_)
\* the key paths of doc, to its mapping-shaped values as well as to the others
KeyPaths(doc) ==
    IF doc.kind = "object"
    THEN UNION { {<<k>>} \cup {<<k>> \o p : p \in KeyPaths(doc.fields[k])} :
                 k \in DOMAIN doc.fields }
    ELSE {}

\* C12 (denylisted-key exclusion): a key "__proto__", "constructor" or
\* "prototype" of the edit, at any depth, is never written into the result,
\* the other keys of the edit are merged as usual, and
\* merge({}, {"__proto__": {polluted: true}, "safe": 1}) is {safe: 1}.
DenylistExclusion ==
    (mPc = "done" /\ Len(mRest) = 1 /\ isObject(mRest[1])) =>
        /\ \A p \in KeyPaths(mRest[1]) :
              ~ValidPath(p) => At(mResult, p) = At(mTarget, p)
        /\ \A p \in LeafPaths(mRest[1]) :
              ValidPath(p) => At(mResult, p) = At(mRest[1], p)
        /\ (/\ mTarget = EmptyObj
            /\ mRest[1] = Obj([safe |-> Num("1"), __proto__ |-> Obj([polluted |-> Num("1")])]))
              => mResult = Obj([safe |-> Num("1")])

\* C12's cases: the example, and a denylisted key below the top level.
DenylistExclusionWitness ==
    /\ mPc = "done"
    /\ \/ /\ mTarget = EmptyObj
          /\ mRest = <<Obj([safe |-> Num("1"), __proto__ |-> Obj([polluted |-> Num("1")])])>>
          /\ mResult = Obj([safe |-> Num("1")])
       \/ /\ mTarget = Obj([a |-> Obj([x |-> Num("1")])])
          /\ mRest = <<Obj([a |-> Obj([prototype |-> Num("1"), y |-> Num("9")])])>>
          /\ mResult = Obj([a |-> Obj([x |-> Num("1"), y |-> Num("9")])])

\* the entries of two mappings with disjoint keys, together
UnionDoc(e1, e2) ==
    Obj([k \in DOMAIN e1.fields \cup DOMAIN e2.fields |->
            IF k \in DOMAIN e1.fields THEN e1.fields[k] ELSE e2.fields[k]])

\* the calls merge(merge({}, e1), e2) with disjoint top-level keys: the
\* e1 for which the target of this call is merge({}, e1)
DisjointFirstEdits ==
    {e1 \in MergeDocs :
        /\ mTarget = assignDeep(EmptyObj, <<e1>>)
        /\ DOMAIN e1.fields \cap DOMAIN mRest[1].fields = {}}

\* C13 (commutativity on disjoint keys), as claimed: two edits with disjoint
\* top-level keys merged onto an empty mapping give the same document in
\* either order, the union of their entries.
DisjointCommutes ==
    (mPc = "done" /\ Len(mRest) = 1 /\ isObject(mRest[1])) =>
        \A e1 \in DisjointFirstEdits :
            /\ mResult = assignDeep(assignDeep(EmptyObj, <<mRest[1]>>), <<e1>>)
            /\ mResult = UnionDoc(e1, mRest[1])

\* C13 as amended: the union of their entries without the denylisted keys.
DisjointCommutesOffDenylist ==
    (mPc = "done" /\ Len(mRest) = 1 /\ isObject(mRest[1])) =>
        \A e1 \in DisjointFirstEdits :
            /\ mResult = assignDeep(assignDeep(EmptyObj, <<mRest[1]>>), <<e1>>)
            /\ mResult = UnionDoc(Mergeable(e1), Mergeable(mRest[1]))

\* C13's case: merge(merge({}, {a: 1}), {b: 2}) has returned {a: 1, b: 2}.
DisjointCommutesWitness ==
    /\ mPc = "done"
    /\ mTarget = Obj([a |-> Num("1")])
    /\ mRest = <<Obj([b |-> Num("2")])>>
    /\ mResult = Obj([a |-> Num("1"), b |-> Num("2")])
    /\ Obj([a |-> Num("1")]) \in DisjointFirstEdits

\* C15 (the Transport never resolves): for as long as the outstanding put
\* is not resolved the queue stays in Sending or SendingWithPending: the flag
\* stays set, no further put is issued, and every add only merges into
\* PendingPayload.
NeverResolved ==
    [][ (outstanding # {} /\ outstanding \subseteq outstanding') =>
            /\ _isSending /\ _isSending'
            /\ puts' = puts
            /\ \A e \in Edits : add(e) =>
                  /\ pendingEdits' = Append(pendingEdits, e)
                  /\ _payload' = MergeInOrder(Head(pendingEdits'), Tail(pendingEdits')) ]_vars

\* C15's case: the first put is still outstanding after two later adds.
NeverResolvedWitness ==
    /\ Len(puts) = 1
    /\ outstanding = {1}
    /\ addCalls = 3
    /\ Len(pendingEdits) = 2
    /\ _isSending

RECURSIVE SumEdits(_)
\* the number of Edits the puts of ps carry, together
SumEdits(ps) ==
    IF ps = <<>> THEN 0 ELSE Len(Head(ps).edits) + SumEdits(Tail(ps))

\* C16 (no retry): a put is made once: its payload is never put again after
\* its write failed (an error response or a rejection), a settled put does
\* not become pending again, and every accepted Edit is carried by exactly
\* one put or is still pending.
NoRetry ==
    [][ /\ Len(puts') >= Len(puts)
        /\ \A i \in DOMAIN puts :
              /\ puts'[i].payload = puts[i].payload
              /\ puts'[i].edits = puts[i].edits
              /\ puts[i].status # "pending" => puts'[i].status = puts[i].status
        /\ \A i \in DOMAIN puts :
              (then(i, FALSE) \/ rejected(i)) =>
                  \/ puts' = [puts EXCEPT ![i].status = puts'[i].status]
                  \/ /\ Len(puts') = Len(puts) + 1
                     /\ pendingEdits # <<>>
                     /\ LastPut(puts').edits = pendingEdits
                     /\ pendingEdits' = <<>>
        /\ SumEdits(puts') + Len(pendingEdits') = addCalls' ]_vars

\* C16's case: the first write got an error response, and the put that
\* followed it carries the Edits that were pending, not the failed payload.
NoRetryWitness ==
    /\ Len(puts) = 2
    /\ response = "error"
    /\ puts[1].status = "fulfilled"
    /\ puts[2].status = "pending"
    /\ puts[2].by = "then"
    /\ puts[2].payload # puts[1].payload

\* C18 (add in Idle): add(edit) in Idle sets the flag and puts exactly edit
\* in the same step; PendingPayload stays empty, so the state is Sending.
IdleAddSends ==
    [][ \A e \in Edits :
          (add(e) /\ ~_isSending /\ _payload = Null) =>
              /\ _isSending'
              /\ puts' = Append(puts, LastPut(puts'))
              /\ LastPut(puts').payload = e
              /\ LastPut(puts').status = "pending"
              /\ _payload' = Null ]_vars

\* C18's case: the queue went back to Idle and an add has put its Edit.
IdleAddSendsWitness ==
    /\ Len(puts) = 2
    /\ puts[1].status = "fulfilled"
    /\ puts[2].by = "add"
    /\ puts[2].status = "pending"
    /\ _isSending
    /\ _payload = Null

\* C19 (add while sending): add(edit) in Sending or SendingWithPending puts
\* nothing, leaves the flag set, and sets PendingPayload to the merge of
\* edit onto the previous PendingPayload, onto an empty mapping if there was
\* none.
SendingAddMerges ==
    [][ \A e \in Edits :
          (add(e) /\ _isSending) =>
              /\ puts' = puts
              /\ _isSending'
              /\ _payload' = assignDeep(IF _payload = Null THEN EmptyObj ELSE _payload, <<e>>) ]_vars

\* C19 on the Edits without a denylisted key.
SendingAddMergesOfMergeable ==
    [][ \A e \in Edits :
          (add(e) /\ _isSending /\ Mergeable(e) = e) =>
              /\ puts' = puts
              /\ _isSending'
              /\ _payload' = assignDeep(IF _payload = Null THEN EmptyObj ELSE _payload, <<e>>) ]_vars

RECURSIVE Values(_, _)
\* the documents the values of a sequence denote
Values(h, vs) ==
    IF vs = <<>> THEN <<>> ELSE <<Value(h, Head(vs))>> \o Values(h, Tail(vs))

\* the keys some edit of rest mentions
Mentioned(h, rest) ==
    UNION {DOMAIN h[rest[n].val] : n \in {m \in DOMAIN rest : isObject(rest[m])}}

\* C14 (merge in place): assignDeep returns the very object it was given as
\* base, that object now holds the merge, and every key of it that no edit
\* mentions keeps its previous value.
MergeInPlace ==
    [][ CallAssignDeepIn =>
            /\ mResult' = mTarget
            /\ Value(heap', mResult') = assignDeep(Value(heap, mTarget), Values(heap, mRest))
            /\ \A k \in (DOMAIN heap[mTarget.val]) \ Mentioned(heap, mRest) :
                  /\ k \in DOMAIN heap'[mTarget.val]
                  /\ heap'[mTarget.val][k] = heap[mTarget.val][k]
                  /\ Value(heap', heap'[mTarget.val][k]) = Value(heap, heap[mTarget.val][k]) ]_vars

\* C14's case: the call has returned the base {a: 1, b: 2} after the edit
\* {a: {x: 1}}, which does not mention b: the base's content has changed at
\* a and b is as it was.
MergeInPlaceWitness ==
    /\ mPc = "done"
    /\ mTarget.kind = "ref"
    /\ mResult = mTarget
    /\ Len(mRest) = 1
    /\ isObject(mRest[1])
    /\ Value(heap, mRest[1]) = Obj([a |-> Obj([x |-> Num("1")])])
    /\ Value(heap, mResult) = Obj([a |-> Obj([x |-> Num("1")]), b |-> Num("2")])

\* a step is an add on instance q
AddOn(q) ==
    \/ \E e \in InstanceEdits : addOn(q, Evaluate(heap, e), Evaluated(heap, e))
    \/ \E a \in held : addOn(q, heap, Ref(a))

\* a step is a write completion on instance q
CompletionOn(q) == \E i \in DOMAIN queues[q].puts : thenOn(q, i)

\* C17 (independent instances): an add or a write completion on one
\* RequestQueue instance leaves the InFlightFlag and the PendingPayload of
\* every other instance unchanged.
InstancesIndependent ==
    [][ \A q \in Urls :
          (AddOn(q) \/ CompletionOn(q)) =>
              \A o \in Urls \ {q} :
                  /\ queues'[o]._isSending = queues[o]._isSending
                  /\ queues'[o]._payload = queues[o]._payload
                  /\ Value(heap', queues'[o]._payload) = Value(heap, queues[o]._payload) ]_vars

\* C17, second half: two instances each have one write outstanding.
BothOutstanding ==
    \A q \in Urls :
        Cardinality({i \in DOMAIN queues[q].puts : queues[q].puts[i].status = "pending"}) = 1

Idle == ~_isSending /\ outstanding = {} /\ _payload = Null
Sending == _isSending /\ outstanding # {} /\ _payload = Null
SendingWithPending == _isSending /\ outstanding # {} /\ _payload # Null

\* C22 (state partition): in every reachable state the queue is in exactly
\* one of Idle, Sending and SendingWithPending; PendingPayload is non-empty
\* only while a write is outstanding.
StatePartition ==
    /\ Idle \/ Sending \/ SendingWithPending
    /\ ~(Idle /\ Sending) /\ ~(Idle /\ SendingWithPending) /\ ~(Sending /\ SendingWithPending)
    /\ outstanding = {} => _payload = Null

\* C22 where a write is taken to be outstanding for as long as the flag is set
StatePartitionByFlag ==
    /\ _payload # Null => _isSending
    /\ outstanding # {} => _isSending

\* C23 (add is atomic): an add that issues a put observes Idle and sets the
\* flag in the same step, and an add that observes the flag set issues no
\* put; so no two add calls both observe Idle and both issue a put.
AtomicAdd ==
    [][ \A e \in Edits :
          add(e) =>
              /\ Len(puts') > Len(puts) => (Idle /\ _isSending' /\ Cardinality(outstanding') = 1)
              /\ _isSending => puts' = puts
              /\ \A n \in DOMAIN puts' :
                    (n > 1 /\ puts'[n].by = "add") => puts'[n - 1].status # "pending" ]_vars

\* C23's case: a second add has arrived while the put of the first one is
\* outstanding, and has not put anything.
AtomicAddWitness ==
    /\ addCalls = 2
    /\ Len(puts) = 1
    /\ puts[1].by = "add"
    /\ puts[1].status = "pending"
    /\ Len(pendingEdits) = 1

\* C24 (PendingPayload is the queue's own): the PendingPayload of an
\* instance is never the same object as an Edit a producer passed to add.
PendingPayloadOwned ==
    \A q \in Urls :
        queues[q]._payload.kind = "ref" => queues[q]._payload.val \notin held

\* C24, the consequence: no step of a queue changes the content of an Edit
\* object a producer holds.
HeldEditsUnchanged ==
    [][ \A a \in held : Value(heap', Ref(a)) = Value(heap, Ref(a)) ]_vars

RECURSIVE Reach(_, _)
\* the addresses of the objects a value leads to in h
Reach(h, v) ==
    IF v.kind = "ref"
    THEN {v.val} \cup UNION {Reach(h, h[v.val][k]) : k \in DOMAIN h[v.val]}
    ELSE {}

\* C25 (deep clone on shape change): where the edit's value at a key k is a
\* mapping and base[k] is absent or not a mapping, base[k] becomes a new
\* object with the content of the edit's value minus denylisted keys, and
\* no object under it is an object of the edit; a later in-place merge into
\* base[k] leaves the edit as it was.
DeepCloneOnShapeChange ==
    [][ (CallAssignDeepIn /\ mRest # <<>> /\ isObject(mRest[1])) =>
          LET base == mTarget.val
              edit == mRest[1].val
          IN  \A k \in {j \in DOMAIN heap[edit] : isValidKey(j)} :
                (isObject(heap[edit][k]) /\ ~isObject(HeapGet(heap, base, k))) =>
                    /\ Len(mRest) = 1 =>
                          /\ heap'[base][k].kind = "ref"
                          /\ Reach(heap', heap'[base][k]) \cap DOMAIN heap = {}
                          /\ Value(heap', heap'[base][k]) = Mergeable(Value(heap, heap[edit][k]))
                    /\ (Len(mRest) = 2 /\ isObject(mRest[2]) /\ isObject(HeapGet(heap, mRest[2].val, k))) =>
                          /\ heap'[base][k].kind = "ref"
                          /\ Reach(heap', heap'[base][k]) \cap DOMAIN heap = {}
                          /\ Value(heap', heap'[base][k])
                                = assignDeep(Mergeable(Value(heap, heap[edit][k])),
                                             <<Value(heap, heap[mRest[2].val][k])>>)
                    /\ Value(heap', mRest[1]) = Value(heap, mRest[1])
                    /\ \A a \in Reach(heap, mRest[1]) : heap'[a] = heap[a] ]_vars

\* C25's case: {a: {x: 1}} was merged onto a base without a, and then
\* {a: {y: 9}} into the base's new a; the first edit is still {a: {x: 1}}.
DeepCloneOnShapeChangeWitness ==
    /\ mPc = "done"
    /\ Len(mRest) = 2
    /\ mRest[1].kind = "ref"
    /\ Value(heap, mRest[1]) = Obj([a |-> Obj([x |-> Num("1")])])
    /\ Value(heap, mRest[2]) = Obj([a |-> Obj([y |-> Num("9")])])
    /\ Value(heap, mResult) = Obj([a |-> Obj([x |-> Num("1"), y |-> Num("9")])])
    /\ heap[mResult.val]["a"] # heap[mRest[1].val]["a"]

RECURSIVE ApplyEach(_, _)
\* merge(...merge(merge(base, e1), e2)..., en): one call of assignDeep for
\* each edit, in order
ApplyEach(base, es) ==
    IF es = <<>> THEN base ELSE ApplyEach(assignDeep(base, <<Head(es)>>), Tail(es))

\* C26 (left to right): merge(base, e1, ..., en) yields the document
\* merge(...merge(merge(base, e1), e2)..., en).
LeftToRight ==
    [][ CallAssignDeepIn =>
          Value(heap', mResult') = ApplyEach(Value(heap, mTarget), Values(heap, mRest)) ]_vars

\* C26's case: two edits that disagree at a, {a: {x: 1}} and then {a: 9},
\* were merged in one call, and the later one has won.
LeftToRightWitness ==
    /\ mPc = "done"
    /\ Len(mRest) = 2
    /\ Value(heap, mRest[1]) = Obj([a |-> Obj([x |-> Num("1")])])
    /\ Value(heap, mRest[2]) = Obj([a |-> Num("9")])
    /\ Value(heap, mResult) = Obj([a |-> Num("9")])

\* an edit that is absent in effect: not a mapping, or a mapping without keys
EmptyEdit(h, v) == ~isObject(v) \/ DOMAIN h[v.val] = {}

\* C27 (absent and empty edits): merge(base) without edits, merge(base, {})
\* and merge(base, x) for an x that is not a mapping return base itself and
\* change nothing.
EmptyEditsAreNoOps ==
    [][ (CallAssignDeepIn /\ \A n \in DOMAIN mRest : EmptyEdit(heap, mRest[n])) =>
            /\ mResult' = mTarget
            /\ heap' = heap ]_vars

\* C27's case: a sequence was given as the edit of a base with content.
EmptyEditsAreNoOpsWitness ==
    /\ mPc = "done"
    /\ mRest = <<Arr("[5]")>>
    /\ mResult = mTarget
    /\ Value(heap, mResult) = Obj([a |-> Obj([x |-> Num("1"), y |-> Num("2")])])

\* the documents the remote resource may hold at first
RemoteDocs == { EmptyObj, Obj([h |-> Obj([x |-> Num("1"), y |-> Num("2")])]) }

RECURSIVE Payloads(_)
\* the payloads of the puts, in the order they were issued
Payloads(ps) ==
    IF ps = <<>> THEN <<>> ELSE <<Head(ps).payload>> \o Payloads(Tail(ps))

RECURSIVE AllEdits(_)
\* the Edits the puts carry, in the order they were added
AllEdits(ps) ==
    IF ps = <<>> THEN <<>> ELSE Head(ps).edits \o AllEdits(Tail(ps))

\* C28 (coalescing preserves the result): once nothing is pending, the
\* remote document after every put was applied to it by structural merge
\* equals the document after every Edit was applied to it one by one, in
\* the order of the add calls.
CoalescingPreservesResult ==
    (_payload = Null /\ \A n \in DOMAIN puts : puts[n].status # "rejected") =>
        \A remote \in RemoteDocs :
            ApplyEach(remote, Payloads(puts)) = ApplyEach(remote, AllEdits(puts))

\* C29 (the payload of a put is fixed): no step changes the payload of a
\* put that was issued, and an add call (a step that counts one) made while
\* the flag of an instance is set issues no put of that instance.
PutPayloadFixed ==
    [][ \A q \in Urls :
          /\ \A i \in DOMAIN queues[q].puts :
                /\ i \in DOMAIN queues'[q].puts
                /\ queues'[q].puts[i].payload = queues[q].puts[i].payload
                /\ queues'[q].puts[i].url = queues[q].puts[i].url
          /\ (addCalls' # addCalls /\ queues[q]._isSending) => queues'[q].puts = queues[q].puts ]_vars

\* C29's case: the object {h: 10} was put, added once more while that write
\* is outstanding, and {s: 50} was then merged into it: the object is now
\* {h: 10, s: 50}, the payload of the outstanding put still {h: 10}.
PutPayloadFixedWitness ==
    \E q \in Urls :
        /\ Len(queues[q].puts) = 1
        /\ queues[q].puts[1].status = "pending"
        /\ queues[q].puts[1].payload = Obj([h |-> Num("10")])
        /\ addCalls = 3
        /\ Cardinality(held) = 2
        /\ \E a \in held :
              /\ queues[q]._payload = Ref(a)
              /\ Value(heap, Ref(a)) = Obj([h |-> Num("10"), s |-> Num("50")])
              /\ \E b \in held \ {a} : Value(heap, Ref(b)) = Obj([s |-> Num("50")])

\* C30 (merge type error): when add throws because PendingPayload and the
\* new payload differ in typeof, PendingPayload, the flag and the puts are
\* as before; and the completion of the outstanding write after such a call
\* puts the PendingPayload accumulated by the calls that did not throw.
TypeErrorLeavesState ==
    [][ /\ \A e \in AnyPayloads :
              (add(e) /\ _isSending /\ Truthy(_payload) /\ TypeOf(_payload) # TypeOf(e)) =>
                  /\ threw'
                  /\ _payload' = _payload
                  /\ _isSending' = _isSending
                  /\ puts' = puts
                  /\ pendingEdits' = pendingEdits
        /\ \A i \in DOMAIN puts, ok \in BOOLEAN :
              (then(i, ok) /\ threw /\ Truthy(_payload)) =>
                  /\ LastPut(puts').payload = JSONstringify(_payload)
                  /\ LastPut(puts').edits = pendingEdits
                  /\ _payload = MergeInOrder(Head(pendingEdits), Tail(pendingEdits)) ]_vars

\* C30's case: add(5) threw while {h: 10} was pending, and the completion
\* of the first write has put {h: 10}.
TypeErrorLeavesStateWitness ==
    /\ threw
    /\ addCalls = 3
    /\ Len(puts) = 2
    /\ puts[2].by = "then"
    /\ puts[2].payload = Obj([h |-> Num("10")])
    /\ puts[2].edits = <<Obj([h |-> Num("10")])>>

\* C31 (no spurious writes): the queue never issues more puts than add
\* calls it accepted, and a write completion issues a put only if at least
\* one add has arrived since the previous put was issued.
NoSpuriousWrites ==
    [][ /\ Len(puts') <= addCalls'
        /\ \A i \in DOMAIN puts, ok \in BOOLEAN :
              (then(i, ok) /\ Len(puts') > Len(puts)) =>
                  /\ pendingEdits # <<>>
                  /\ LastPut(puts').edits = pendingEdits
        /\ (addCalls' = addCalls) => Len(puts') <= Len(puts) + 1 ]_vars

\* C31's case: three adds have led to two puts, the second one issued by
\* the completion of the first; its completion found nothing to put.
NoSpuriousWritesWitness ==
    /\ addCalls = 3
    /\ Len(puts) = 2
    /\ puts[2].by = "then"
    /\ puts[2].status = "fulfilled"
    /\ ~_isSending

\* C32 (idempotence): merge(merge(base, e), e) equals merge(base, e).
MergeIdempotent ==
    (mPc = "done" /\ Len(mRest) = 1) => assignDeep(mResult, mRest) = mResult

\* C32's case: an edit that changes the base, with a mapping under a key
\* where the base has a scalar, was merged.
MergeIdempotentWitness ==
    /\ mPc = "done"
    /\ mTarget = Obj([a |-> Num("1"), b |-> Num("2")])
    /\ mRest = <<Obj([a |-> Obj([x |-> Num("1"), y |-> Num("2")])])>>
    /\ mResult = Obj([a |-> Obj([x |-> Num("1"), y |-> Num("2")]), b |-> Num("2")])

\* C33 (listeners removed): once disconnectedCallback has run and the menu
\* is out of the document, no listener the menu registered is attached to
\* a minimum or a maximum color picker.
ListenersRemoved ==
    (~menu.connected /\ menu.connects > 0) =>
        \A p \in DOMAIN menu.pickers : menu.pickers[p].listener = 0

\* C33 for the minimum color picker of a menu that was connected once and
\* whose getJson resolved before it was disconnected (disconnectedCallback
\* found the listener fields set and cleared them)
MinimumListenerRemoved ==
    (~menu.connected /\ menu.connects = 1 /\ menu.minimumColorListener = 0) =>
        \A p \in DOMAIN menu.pickers :
            menu.pickers[p].id = "minimumColor" => menu.pickers[p].listener = 0

\* C33, the consequence: a listener of the first connection has added an
\* Edit after the menu was disconnected and connected again (the pickers of
\* the second connection do not exist yet).
StaleListenerAdded ==
    /\ menu.connects = 2
    /\ menu.awaiting = 1
    /\ Len(menu.pickers) = 2
    /\ addCalls = 1

\* C34 (live view restored): after the menu was connected and then
\* disconnected and both of its puts to /api/live-view/source have
\* completed, the server's source is LIVE_VIEW.
LiveViewRestored ==
    (/\ menu.connects = 1
     /\ ~menu.connected
     /\ Len(liveView.requests) = 2
     /\ \A i \in DOMAIN liveView.requests : liveView.requests[i].status = "completed")
        => liveView.source = "LIVE_VIEW"

\* the second put arrives while the first one is still on its way
OvertakenPut ==
    /\ Len(liveView.requests) >= 2
    /\ liveView.requests[1].status = "sent"
    /\ liveView.requests[2].status # "sent"

====
